---- MODULE Spec2Model ----
(***************************************************************************)
(* A model of cargo's TargetInfo                                           *)
(* (src/cargo/ops/cargo_rustc/context/target_info.rs): the construction    *)
(* time probe of rustc (TargetInfo::new), the lazily filled crate-type     *)
(* cache and the file-type expansion (TargetInfo::file_types), the focused *)
(* probe (discover_crate_type) and the shared parser (parse_crate_type).   *)
(*                                                                         *)
(* Strings are TLA+ strings; the std::str operations the code uses         *)
(* (contains, starts_with, ends_with, trim, split) are computed on their   *)
(* characters.  A process' stdout and stderr are kept as the sequence of   *)
(* their lines, which is what str::lines() iterates over.                  *)
(***************************************************************************)
EXTENDS Integers, Sequences, FiniteSets, TLC

VARIABLES
    toolchain,           \* the rustc the instance talks to (fixed per behaviour)
    cx,                  \* the arguments of TargetInfo::new: Context and Kind
    pc,                  \* "start" | "ready" | "failed" | "parse"
    crate_type_process,  \* TargetInfo.crate_type_process
    crate_types,         \* TargetInfo.crate_types
    cfg,                 \* TargetInfo.cfg
    sysroot_libdir,      \* TargetInfo.sysroot_libdir
    invocations,         \* every exec_with_output issued so far, in order
    call                 \* the last operation: its arguments and what it returned

vars == <<toolchain, cx, pc, crate_type_process, crate_types, cfg,
          sysroot_libdir, invocations, call>>

-----------------------------------------------------------------------------
(* Bounds of the model.                                                    *)

\* Longest stdout line handed to parse_crate_type in SpecParse.
MaxLineLen == 7

\* Most focused probes (discover_crate_type) one instance issues.
MaxFocused == 2

-----------------------------------------------------------------------------
(* Option and Result values.                                               *)

None == [some |-> FALSE]

Some(v) == [some |-> TRUE, val |-> v]

Ok(v) == [ok |-> TRUE, val |-> v]

Err(msg) == [ok |-> FALSE, err |-> msg]

-----------------------------------------------------------------------------
(* std::str operations, on the characters of a string.                     *)

\* str::contains(pat)
contains(s, pat) ==
    \E i \in 1..(Len(s) - Len(pat) + 1) : SubSeq(s, i, i + Len(pat) - 1) = pat

\* str::starts_with(pat)
starts_with(s, pat) ==
    Len(pat) <= Len(s) /\ SubSeq(s, 1, Len(pat)) = pat

\* str::ends_with(pat)
ends_with(s, pat) ==
    Len(pat) <= Len(s) /\ SubSeq(s, Len(s) - Len(pat) + 1, Len(s)) = pat

\* char::is_whitespace, for the characters the model's lines are made of
is_whitespace(c) == c = " "

\* str::trim(): the string without its leading and trailing whitespace
trim(s) ==
    LET keep == {i \in 1..Len(s) : ~is_whitespace(SubSeq(s, i, i))}
    IN  IF keep = {} THEN ""
        ELSE LET lo == CHOOSE i \in keep : \A j \in keep : i <= j
                 hi == CHOOSE i \in keep : \A j \in keep : j <= i
             IN  SubSeq(s, lo, hi)

\* str::split(sep), collected: the leftmost, non-overlapping matches of sep cut
\* the string; a string without sep is its own single part.
RECURSIVE split(_, _)
split(s, sep) ==
    LET hits == {i \in 1..(Len(s) - Len(sep) + 1) : SubSeq(s, i, i + Len(sep) - 1) = sep}
    IN  IF hits = {} THEN <<s>>
        ELSE LET i == CHOOSE h \in hits : \A g \in hits : h <= g
             IN  <<SubSeq(s, 1, i - 1)>> \o split(SubSeq(s, i + Len(sep), Len(s)), sep)

-----------------------------------------------------------------------------
(* parse_crate_type                                                        *)

\* The closure of `error.lines().any(..)`: does stderr report crate_type as
\* unsupported or unknown?
not_supported(crate_type, error) ==
    \E n \in 1..Len(error) :
        /\ \/ contains(error[n], "unsupported crate type")
           \/ contains(error[n], "unknown crate type")
        /\ contains(error[n], crate_type)

\* A variant of parse_crate_type that keeps a line without the separator as a
\* prefix with an empty suffix.
parse_crate_type_lenient(crate_type, error, lines) ==
    IF not_supported(crate_type, error)
    THEN [res |-> Ok(None), lines |-> lines]
    ELSE IF lines = <<>>
    THEN [res |-> Err("malformed output"), lines |-> lines]
    ELSE LET parts == split(trim(Head(lines)), "___")
         IN  [res   |-> Ok(Some(<<parts[1], IF Len(parts) < 2 THEN "" ELSE parts[2]>>)),
              lines |-> Tail(lines)]

\* parse_crate_type(crate_type, error, lines): the result, and the lines iterator
\* as the call leaves it.
parse_crate_type(crate_type, error, lines) ==
    IF not_supported(crate_type, error)
    THEN [res |-> Ok(None), lines |-> lines]
    ELSE IF lines = <<>>
    THEN [res |-> Err("malformed output"), lines |-> lines]
    ELSE LET parts == split(trim(Head(lines)), "___")
         IN  IF Len(parts) < 2
             THEN [res |-> Err("cannot parse"), lines |-> Tail(lines)]
             ELSE [res   |-> Ok(Some(<<parts[1], parts[2]>>)),
                   lines |-> Tail(lines)]

-----------------------------------------------------------------------------
(* The toolchain: what exec_with_output returns for an argument list.      *)
(* rustc is outside the repository; a toolchain is described by the file   *)
(* names it prints, the crate types it drops with a warning, whether it    *)
(* can be run at all, whether it accepts --print=sysroot and --print=cfg   *)
(* next to --print=file-names, and how its output is malformed (if it is). *)

KNOWN_CRATE_TYPES == <<"bin", "rlib", "dylib", "cdylib", "staticlib", "proc-macro">>

Known == {KNOWN_CRATE_TYPES[i] : i \in DOMAIN KNOWN_CRATE_TYPES}

\* The crate types rustc itself knows; any other --crate-type is an error.
RustcCrateTypes == Known \cup {"lib"}

\* The crate types callers of file_types ask for.
CrateTypes == RustcCrateTypes \cup {"macro"}

Profiles == {"linux", "msvc", "emscripten"}

\* What rustc prints per crate type under --crate-name ___ --print=file-names.
FileNames(profile) ==
    CASE profile = "linux" ->
           [k \in RustcCrateTypes |->
              CASE k = "bin" -> "___"
                [] k \in {"rlib", "lib"} -> "lib___.rlib"
                [] k = "staticlib" -> "lib___.a"
                [] OTHER -> "lib___.so"]
      [] profile = "msvc" ->
           [k \in RustcCrateTypes |->
              CASE k = "bin" -> "___.exe"
                [] k \in {"rlib", "lib"} -> "lib___.rlib"
                [] k = "staticlib" -> "___.lib"
                [] OTHER -> "___.dll"]
      [] OTHER ->
           [k \in RustcCrateTypes |->
              CASE k = "bin" -> "___.js"
                [] k \in {"rlib", "lib"} -> "lib___.rlib"
                [] k = "staticlib" -> "lib___.a"
                [] OTHER -> "lib___.so"]

\* cx.target_triple()
target_triple(profile) ==
    CASE profile = "linux" -> "x86_64-unknown-linux-gnu"
      [] profile = "msvc" -> "x86_64-pc-windows-msvc"
      [] OTHER -> "wasm32-unknown-emscripten"

\* cfg!(windows): the platform cargo itself was built for
windows(profile) == profile = "msvc"

\* How a toolchain's output is malformed: the first name line has no separator,
\* the last name line is missing, the sysroot and cfg lines are missing, both
\* of these (the output ends early), a cfg line is no configuration flag; or,
\* for crate type lib alone, the name line is missing or has no separator.
Defects ==
    {"none", "nosep", "short", "nosysroot", "truncated", "badcfg", "liblost", "libnosep"}

Toolchains ==
    [profile  : Profiles,
     rejected : SUBSET RustcCrateTypes,
     runs     : BOOLEAN,
     modern   : BOOLEAN,
     defect   : Defects]

\* The crate types an argument list asks for, in order.
RECURSIVE RequestedCrateTypes(_)
RequestedCrateTypes(args) ==
    IF Len(args) < 2 THEN <<>>
    ELSE IF Head(args) = "--crate-type"
         THEN <<args[2]>> \o RequestedCrateTypes(SubSeq(args, 3, Len(args)))
         ELSE RequestedCrateTypes(Tail(args))

HasArg(args, a) == \E i \in DOMAIN args : args[i] = a

RECURSIVE Concat(_)
Concat(seqs) == IF seqs = <<>> THEN <<>> ELSE Head(seqs) \o Concat(Tail(seqs))

RECURSIVE Join(_)
Join(parts) == IF parts = <<>> THEN "" ELSE Head(parts) \o Join(Tail(parts))

\* The file-name lines of stdout: one per requested crate type that is not
\* dropped, in request order; then the toolchain's defect, if any.
NameLines(tc, kinds) ==
    LET good == Concat([i \in DOMAIN kinds |->
                          IF kinds[i] \in tc.rejected THEN <<>>
                          ELSE IF kinds[i] = "lib" /\ tc.defect = "liblost" THEN <<>>
                          ELSE IF kinds[i] = "lib" /\ tc.defect = "libnosep"
                          THEN <<Join(split(FileNames(tc.profile)[kinds[i]], "___"))>>
                          ELSE <<FileNames(tc.profile)[kinds[i]]>>])
    IN  IF good = <<>> THEN good
        ELSE CASE tc.defect = "nosep" ->
                    <<Join(split(Head(good), "___"))>> \o Tail(good)
               [] tc.defect \in {"short", "truncated"} -> SubSeq(good, 1, Len(good) - 1)
               [] OTHER -> good

\* The warning lines of stderr: one per requested crate type that is dropped
\* (rustc quotes the names with backquotes, written ' here).
WarningLines(tc, kinds) ==
    Concat([i \in DOMAIN kinds |->
              IF kinds[i] \in tc.rejected
              THEN <<"warning: dropping unsupported crate type '" \o kinds[i]
                       \o "' for target '" \o target_triple(tc.profile) \o "'">>
              ELSE <<>>])

SysrootLine == "/rust"

CfgLines(tc) ==
    IF tc.defect = "badcfg" THEN <<"unix", "=", "unix">>
    ELSE <<"unix", "debug_assertions", "target_os=linux", "unix">>

\* ProcessBuilder::exec_with_output: Err when the process cannot be run or exits
\* with a failure, else the captured output.
exec_with_output(tc, args) ==
    LET kinds == RequestedCrateTypes(args)
        extra == HasArg(args, "--print=sysroot") \/ HasArg(args, "--print=cfg")
    IN  IF \/ ~tc.runs
           \/ extra /\ ~tc.modern
           \/ \E i \in DOMAIN kinds : kinds[i] \notin RustcCrateTypes
        THEN Err("process did not exit successfully")
        ELSE Ok([stdout |-> NameLines(tc, kinds)
                              \o (IF HasArg(args, "--print=sysroot")
                                     /\ tc.defect \notin {"nosysroot", "truncated"}
                                  THEN <<SysrootLine>> ELSE <<>>)
                              \o (IF HasArg(args, "--print=cfg")
                                     /\ tc.defect \notin {"nosysroot", "truncated"}
                                  THEN CfgLines(tc) ELSE <<>>),
                 stderr |-> WarningLines(tc, kinds)])

\* The characters a configuration name starts with.
IdentStart ==
    {"a", "b", "c", "d", "e", "f", "g", "h", "i", "j", "k", "l", "m", "n", "o", "p",
     "q", "r", "s", "t", "u", "v", "w", "x", "y", "z", "_"}

\* Cfg::from_str: `name` or `key=value`; a line that does not start with a
\* name is an error.
CfgFromStr(line) ==
    IF line = "" \/ SubSeq(line, 1, 1) \notin IdentStart THEN Err("expected identifier")
    ELSE IF contains(line, "=")
    THEN Ok(<<"KeyPair", split(line, "=")[1], split(line, "=")[2]>>)
    ELSE Ok(<<"Name", line>>)

-----------------------------------------------------------------------------
(* TargetInfo::new                                                         *)

\* One entry of the invocation log.
Invocation(probe, args, out) == [probe |-> probe, args |-> args, ok |-> out.ok]

\* `process` as lines 40-51 build it: the base invocation.
BaseProcess(tc, c) ==
    <<"-", "--crate-name", "___", "--print=file-names">> \o c.rustflags
      \o (IF c.kind = "Target" THEN <<"--target", target_triple(tc.profile)>> ELSE <<>>)

\* `process` after the loop of lines 56-58.
BatchProcess(tc, c) ==
    BaseProcess(tc, c)
      \o Concat([i \in DOMAIN KNOWN_CRATE_TYPES |-> <<"--crate-type", KNOWN_CRATE_TYPES[i]>>])

\* `with_cfg`, lines 60-62.
WithCfgProcess(tc, c) == BatchProcess(tc, c) \o <<"--print=sysroot", "--print=cfg">>

\* The loop of lines 77-80 from the i-th known crate type on: the map, or the
\* first error, and the lines left.
RECURSIVE ParseKnown(_, _, _, _), ParseNext(_, _, _, _)
ParseKnown(i, error, lines, map) ==
    IF i > Len(KNOWN_CRATE_TYPES) THEN [res |-> Ok(map), lines |-> lines]
    ELSE ParseNext(i, error, map, parse_crate_type(KNOWN_CRATE_TYPES[i], error, lines))

\* A variant of the turn that passes over a line for a rejected crate type too.
ParseNextSkipping(i, error, map, out) ==
    IF ~out.res.ok THEN out
    ELSE ParseKnown(i + 1, error,
                    IF out.res.val = None /\ out.lines # <<>> THEN Tail(out.lines)
                    ELSE out.lines,
                    map @@ (KNOWN_CRATE_TYPES[i] :> out.res.val))

\* One turn of the loop: line 78's `?` and line 79's insert.
ParseNext(i, error, map, out) ==
    IF ~out.res.ok THEN out
    ELSE ParseKnown(i + 1, error, out.lines, map @@ (KNOWN_CRATE_TYPES[i] :> out.res.val))

\* Lines 91-105: the library directory under the sysroot, as path components.
SysrootLibdir(tc, c, line) ==
    IF c.kind = "Host"
    THEN <<line, IF windows(tc.profile) THEN "bin" ELSE "lib">>
    ELSE <<line, "lib", "rustlib", target_triple(tc.profile), "lib">>

\* Line 109: lines.map(Cfg::from_str).collect::<CargoResult<_>>()
RECURSIVE CollectCfg(_)
CollectCfg(lines) ==
    IF lines = <<>> THEN Ok(<<>>)
    ELSE LET first == CfgFromStr(Head(lines))
         IN  IF ~first.ok THEN first
             ELSE LET rest == CollectCfg(Tail(lines))
                  IN  IF ~rest.ok THEN rest ELSE Ok(<<first.val>> \o rest.val)

\* A variant of the or_else closure that forgets to clear has_cfg_and_sysroot.
ReducedProbeKeepsFlag(tc, c, log, output) ==
    [has_cfg_and_sysroot |-> TRUE, output |-> output,
     log |-> log \o <<Invocation("reduced", BatchProcess(tc, c), output)>>]

\* Lines 67-70: the closure of or_else, run when the combined probe failed.
ReducedProbe(tc, c, log, output) ==
    [has_cfg_and_sysroot |-> FALSE, output |-> output,
     log |-> log \o <<Invocation("reduced", BatchProcess(tc, c), output)>>]

\* A variant that runs the combined probe a second time before it falls back.
ProbeFromRetrying(tc, c, first) ==
    IF first.ok
    THEN [has_cfg_and_sysroot |-> TRUE, output |-> first,
          log |-> <<Invocation("combined", WithCfgProcess(tc, c), first)>>]
    ELSE ReducedProbe(tc, c, <<Invocation("combined", WithCfgProcess(tc, c), first),
                               Invocation("combined", WithCfgProcess(tc, c), first)>>,
                      exec_with_output(tc, BatchProcess(tc, c)))

\* Lines 64-70, given the outcome of with_cfg.exec_with_output().
ProbeFrom(tc, c, first) ==
    IF first.ok
    THEN [has_cfg_and_sysroot |-> TRUE, output |-> first,
          log |-> <<Invocation("combined", WithCfgProcess(tc, c), first)>>]
    ELSE ReducedProbe(tc, c, <<Invocation("combined", WithCfgProcess(tc, c), first)>>,
                      exec_with_output(tc, BatchProcess(tc, c)))

\* Lines 64-70: the combined probe and, when it fails, the reduced one.
Probe(tc, c) == ProbeFrom(tc, c, exec_with_output(tc, WithCfgProcess(tc, c)))

\* What TargetInfo::new returns: the result (the instance, or the error), the
\* invocations issued, and the local has_cfg_and_sysroot.
NewReturn(p, res) ==
    [res |-> res, log |-> p.log, has_cfg_and_sysroot |-> p.has_cfg_and_sysroot]

\* A variant that stores the process as it is after the loop of lines 56-58.
NewInstanceLateClone(tc, c, p, parsed, flags) ==
    IF ~flags.ok THEN NewReturn(p, flags)
    ELSE NewReturn(p, Ok([crate_type_process |-> Some(BatchProcess(tc, c)),
                          crate_types |-> parsed.res.val,
                          cfg |-> IF p.has_cfg_and_sysroot THEN Some(flags.val) ELSE None,
                          sysroot_libdir |->
                              IF p.has_cfg_and_sysroot
                              THEN Some(SysrootLibdir(tc, c, Head(parsed.lines)))
                              ELSE None]))

\* A variant that returns the instance without its template.
NewInstanceNoTemplate(tc, c, p, parsed, flags) ==
    IF ~flags.ok THEN NewReturn(p, flags)
    ELSE NewReturn(p, Ok([crate_type_process |-> None,
                          crate_types |-> parsed.res.val,
                          cfg |-> IF p.has_cfg_and_sysroot THEN Some(flags.val) ELSE None,
                          sysroot_libdir |->
                              IF p.has_cfg_and_sysroot
                              THEN Some(SysrootLibdir(tc, c, Head(parsed.lines)))
                              ELSE None]))

\* Lines 108-119: the configuration flags and the instance.
NewInstance(tc, c, p, parsed, flags) ==
    IF ~flags.ok THEN NewReturn(p, flags)
    ELSE NewReturn(p, Ok([crate_type_process |-> Some(BaseProcess(tc, c)),
                          crate_types |-> parsed.res.val,
                          cfg |-> IF p.has_cfg_and_sysroot THEN Some(flags.val) ELSE None,
                          sysroot_libdir |->
                              IF p.has_cfg_and_sysroot
                              THEN Some(SysrootLibdir(tc, c, Head(parsed.lines)))
                              ELSE None]))

\* A variant that returns an instance without cfg and sysroot_libdir when the
\* sysroot line is missing.
NewParsedPartial(tc, c, p, parsed) ==
    IF ~parsed.res.ok THEN NewReturn(p, parsed.res)
    ELSE IF p.has_cfg_and_sysroot /\ parsed.lines = <<>>
    THEN NewReturn(p, Ok([crate_type_process |-> Some(BaseProcess(tc, c)),
                          crate_types |-> parsed.res.val,
                          cfg |-> None, sysroot_libdir |-> None]))
    ELSE NewInstance(tc, c, p, parsed,
                     IF p.has_cfg_and_sysroot
                     THEN CollectCfg(Tail(parsed.lines)) ELSE Ok(<<>>))

\* Lines 82-112, given what the loop over the known crate types returned.
NewParsed(tc, c, p, parsed) ==
    IF ~parsed.res.ok THEN NewReturn(p, parsed.res)
    ELSE IF p.has_cfg_and_sysroot /\ parsed.lines = <<>>
    THEN NewReturn(p, Err("output of --print=sysroot missing"))
    ELSE NewInstance(tc, c, p, parsed,
                     IF p.has_cfg_and_sysroot
                     THEN CollectCfg(Tail(parsed.lines)) ELSE Ok(<<>>))

\* Lines 71-80, given the probe.
NewProbed(tc, c, p) ==
    IF ~p.output.ok
    THEN NewReturn(p, Err("failed to run rustc to learn about target-specific information"))
    ELSE NewParsed(tc, c, p,
                   ParseKnown(1, p.output.val.stderr, p.output.val.stdout, <<>>))

\* TargetInfo::new(cx, kind)
TargetInfoNew(tc, c) ==
    IF ~c.setup_ok
    THEN [res |-> Err("could not load the configuration"), log |-> <<>>,
          has_cfg_and_sysroot |-> TRUE]
    ELSE NewProbed(tc, c, Probe(tc, c))

\* The action: one call of TargetInfo::new.
New ==
    /\ pc = "start"
    /\ \E r \in {TargetInfoNew(toolchain, cx)} :
           /\ pc' = IF r.res.ok THEN "ready" ELSE "failed"
           /\ crate_type_process' =
                  IF r.res.ok THEN r.res.val.crate_type_process ELSE crate_type_process
           /\ crate_types' = IF r.res.ok THEN r.res.val.crate_types ELSE crate_types
           /\ cfg' = IF r.res.ok THEN r.res.val.cfg ELSE cfg
           /\ sysroot_libdir' = IF r.res.ok THEN r.res.val.sysroot_libdir ELSE sysroot_libdir
           /\ invocations' = invocations \o r.log
           /\ call' = [op |-> "new", ok |-> r.res.ok,
                       err |-> IF r.res.ok THEN "" ELSE r.res.err,
                       has_cfg_and_sysroot |-> r.has_cfg_and_sysroot]
    /\ UNCHANGED <<toolchain, cx>>

-----------------------------------------------------------------------------
(* TargetInfo::file_types and discover_crate_type                          *)

FileType(prefix, suffix, target_file_type, should_replace_hyphens) ==
    [suffix |-> suffix, prefix |-> prefix, target_file_type |-> target_file_type,
     should_replace_hyphens |-> should_replace_hyphens]

\* A variant of the base descriptor with prefix and suffix exchanged.
BaseFileTypeSwapped(prefix, suffix, file_type) == FileType(suffix, prefix, file_type, FALSE)

\* Lines 146-153: the descriptor every list starts with.
BaseFileType(prefix, suffix, file_type) == FileType(prefix, suffix, file_type, FALSE)

\* A variant of the import-library rule that hands on the role of the DLL.
ImportLibraryLinkable(prefix, suffix, crate_type, triple) ==
    IF /\ ends_with(triple, "pc-windows-msvc")
       /\ ends_with(crate_type, "dylib")
       /\ suffix = ".dll"
    THEN <<FileType(prefix, ".dll.lib", "Linkable", FALSE)>>
    ELSE <<>>

\* Lines 155-165 (rust-lang/cargo#4500): the import library of a DLL.
ImportLibrary(prefix, suffix, crate_type, triple) ==
    IF /\ ends_with(triple, "pc-windows-msvc")
       /\ ends_with(crate_type, "dylib")
       /\ suffix = ".dll"
    THEN <<FileType(prefix, ".dll.lib", "Normal", FALSE)>>
    ELSE <<>>

\* Lines 167-175 (rust-lang/cargo#4535): the .wasm file next to the .js file.
WasmBinary(prefix, suffix, crate_type, triple) ==
    IF /\ starts_with(triple, "wasm32-")
       /\ crate_type = "bin"
       /\ suffix = ".js"
    THEN <<FileType(prefix, ".wasm", "Normal", TRUE)>>
    ELSE <<>>

\* A variant of the debug-info rule without the test of the target kind.
DebugInfoForAnyKind(prefix, kind, triple) ==
    IF contains(triple, "-apple-")
    THEN <<FileType(prefix, ".dSYM", "DebugInfo", FALSE)>>
    ELSE IF ends_with(triple, "-msvc")
    THEN <<FileType(prefix, ".pdb", "DebugInfo", FALSE)>>
    ELSE <<>>

\* A variant of the debug-info rule that knows Apple targets only.
DebugInfoAppleOnly(prefix, kind, triple) ==
    IF kind = "Bin" /\ contains(triple, "-apple-")
    THEN <<FileType(prefix, ".dSYM", "DebugInfo", FALSE)>>
    ELSE <<>>

\* Lines 177-198 (rust-lang/cargo#4490, #4960): the debug information of a binary.
DebugInfo(prefix, kind, triple) ==
    IF kind = "Bin"
    THEN IF contains(triple, "-apple-")
         THEN <<FileType(prefix, ".dSYM", "DebugInfo", FALSE)>>
         ELSE IF ends_with(triple, "-msvc")
         THEN <<FileType(prefix, ".pdb", "DebugInfo", FALSE)>>
         ELSE <<>>
    ELSE <<>>

\* A variant of the expansion that appends the debug information before the
\* .wasm file.
FileTypeListDebugFirst(crate_type_info, crate_type, file_type, kind, triple) ==
    IF ~crate_type_info.some THEN None
    ELSE Some(<<BaseFileType(crate_type_info.val[1], crate_type_info.val[2], file_type)>>
                \o ImportLibrary(crate_type_info.val[1], crate_type_info.val[2],
                                 crate_type, triple)
                \o DebugInfo(crate_type_info.val[1], kind, triple)
                \o WasmBinary(crate_type_info.val[1], crate_type_info.val[2],
                              crate_type, triple))

\* Lines 142-200: what file_types returns for the naming info of the crate type.
FileTypeList(crate_type_info, crate_type, file_type, kind, triple) ==
    IF ~crate_type_info.some THEN None
    ELSE LET prefix == crate_type_info.val[1]
             suffix == crate_type_info.val[2]
         IN  Some(<<BaseFileType(prefix, suffix, file_type)>>
                    \o ImportLibrary(prefix, suffix, crate_type, triple)
                    \o WasmBinary(prefix, suffix, crate_type, triple)
                    \o DebugInfo(prefix, kind, triple))

\* discover_crate_type(&self, crate_type): the result and the invocation issued.
DiscoverFrom(crate_type, args, output) ==
    [res |-> IF ~output.ok
             THEN Err("failed to run rustc to learn about crate-type information")
             ELSE parse_crate_type(crate_type, output.val.stderr, output.val.stdout).res,
     log |-> <<Invocation("focused", args, output)>>]

\* Line 204: `self.crate_type_process.clone().unwrap()` on an absent template
\* panics before any process is run.
Panic == Err("called Option::unwrap() on a None value")

\* A variant of the focused probe that asks for the sysroot and the
\* configuration again.
discover_crate_type_full(tc, process, crate_type) ==
    IF ~process.some THEN [res |-> Panic, log |-> <<>>]
    ELSE DiscoverFrom(crate_type,
                      process.val \o <<"--crate-type", crate_type,
                                       "--print=sysroot", "--print=cfg">>,
                      exec_with_output(tc, process.val \o <<"--crate-type", crate_type,
                                                            "--print=sysroot", "--print=cfg">>))

\* A variant of the focused probe that runs a bare invocation when the
\* instance has no template.
discover_crate_type_bare(tc, process, crate_type) ==
    IF ~process.some
    THEN DiscoverFrom(crate_type, <<"--crate-type", crate_type>>,
                      exec_with_output(tc, <<"--crate-type", crate_type>>))
    ELSE DiscoverFrom(crate_type, process.val \o <<"--crate-type", crate_type>>,
                      exec_with_output(tc, process.val \o <<"--crate-type", crate_type>>))

discover_crate_type(tc, process, crate_type) ==
    IF ~process.some THEN [res |-> Panic, log |-> <<>>]
    ELSE DiscoverFrom(crate_type, process.val \o <<"--crate-type", crate_type>>,
                      exec_with_output(tc, process.val \o <<"--crate-type", crate_type>>))

\* A variant of the insert that keeps no entry for an unsupported crate type.
InsertSkipsNone(map, crate_type, value) ==
    [hit |-> FALSE, res |-> value.res, log |-> value.log,
     map |-> IF value.res.ok /\ value.res.val # None
             THEN map @@ (crate_type :> value.res.val) ELSE map]

\* A variant of the insert that remembers a failed probe as an unsupported
\* crate type.
InsertCachesFailure(map, crate_type, value) ==
    [hit |-> FALSE, res |-> value.res, log |-> value.log,
     map |-> IF value.res.ok THEN map @@ (crate_type :> value.res.val)
             ELSE map @@ (crate_type :> None)]

\* Lines 137-140: the vacant entry, given what discover_crate_type returned.
Insert(map, crate_type, value) ==
    [hit |-> FALSE, res |-> value.res, log |-> value.log,
     map |-> IF value.res.ok THEN map @@ (crate_type :> value.res.val) ELSE map]

\* A variant of the lookup that probes whether or not the entry is occupied.
LookupAlwaysProbes(tc, process, map, crate_type) ==
    [hit |-> crate_type \in DOMAIN map,
     res |-> discover_crate_type(tc, process, crate_type).res,
     log |-> discover_crate_type(tc, process, crate_type).log,
     map |-> IF discover_crate_type(tc, process, crate_type).res.ok
             THEN (crate_type :> discover_crate_type(tc, process, crate_type).res.val) @@ map
             ELSE map]

\* Lines 133-141: the cache lookup.  An occupied entry is returned as it is; a
\* vacant one is filled with what discover_crate_type returns, unless that is
\* an error, which leaves the map alone.
Lookup(tc, process, map, crate_type) ==
    IF crate_type \in DOMAIN map
    THEN [hit |-> TRUE, res |-> Ok(map[crate_type]), map |-> map, log |-> <<>>]
    ELSE Insert(map, crate_type, discover_crate_type(tc, process, crate_type))

Focused == {i \in DOMAIN invocations : invocations[i].probe = "focused"}

\* The action: one call of file_types on the instance.  A panic unwinds out of
\* the call and ends the caller.
FileTypes(crate_type, file_type, kind, triple) ==
    /\ pc = "ready"
    /\ crate_type \in DOMAIN crate_types \/ Cardinality(Focused) < MaxFocused
    /\ \E l \in {Lookup(toolchain, crate_type_process, crate_types, crate_type)} :
           /\ pc' = IF l.res = Panic THEN "panicked" ELSE pc
           /\ crate_types' = l.map
           /\ invocations' = invocations \o l.log
           /\ call' = [op |-> "file_types", crate_type |-> crate_type,
                       file_type |-> file_type, kind |-> kind,
                       target_triple |-> triple, hit |-> l.hit, ok |-> l.res.ok,
                       err |-> IF l.res.ok THEN "" ELSE l.res.err,
                       ret |-> IF l.res.ok
                               THEN FileTypeList(l.res.val, crate_type, file_type,
                                                 kind, triple)
                               ELSE None]
    /\ UNCHANGED <<toolchain, cx, crate_type_process, cfg, sysroot_libdir>>

\* The action: TargetInfo::default(), the derived Default of line 11: no
\* template, an empty cache, no cfg and no sysroot_libdir; nothing is run.
Default ==
    /\ pc = "start"
    /\ pc' = "ready"
    /\ crate_type_process' = None
    /\ crate_types' = <<>>
    /\ cfg' = None
    /\ sysroot_libdir' = None
    /\ call' = [op |-> "default"]
    /\ UNCHANGED <<toolchain, cx, invocations>>

-----------------------------------------------------------------------------
(* The arguments callers pass.                                             *)

TargetFileTypes == {"Normal", "Linkable", "DebugInfo"}

\* core::TargetKind, as far as file_types tells its values apart.
TargetKinds == {"Lib", "Bin", "Test"}

\* Target triples: file_types takes any string.  The last two name no real
\* platform; they are strings on which several of its tests hold at once.
Triples ==
    {"x86_64-unknown-linux-gnu", "x86_64-pc-windows-msvc", "x86_64-uwp-windows-msvc",
     "x86_64-apple-darwin", "wasm32-unknown-unknown",
     "wasm32-pc-windows-msvc", "x86_64-apple-msvc"}

Contexts ==
    {[kind |-> "Host", setup_ok |-> TRUE, rustflags |-> <<"-Cdebuginfo=2">>],
     [kind |-> "Target", setup_ok |-> TRUE, rustflags |-> <<"-Cdebuginfo=2">>],
     [kind |-> "Host", setup_ok |-> FALSE, rustflags |-> <<>>]}

Start(tcs, cxs) ==
    /\ toolchain \in tcs
    /\ cx \in cxs
    /\ pc = "start"
    /\ crate_type_process = None
    /\ crate_types = <<>>
    /\ cfg = None
    /\ sysroot_libdir = None
    /\ invocations = <<>>
    /\ call = [op |-> "none"]

-----------------------------------------------------------------------------
(* Spec: the life of one instance.  It is constructed (by TargetInfo::new   *)
(* or by Default) against a toolchain that drops none or some of the crate *)
(* types and may print a malformed name for crate type lib, and file_types *)
(* is then called any number of times, with the triple the instance was    *)
(* built for.                                                              *)

LifeToolchains ==
    {tc \in Toolchains :
        /\ tc.defect \in {"none", "liblost", "libnosep"}
        /\ tc.rejected \in {{}, {"dylib", "cdylib", "proc-macro"}, {"cdylib"}, {"lib"}}
        /\ tc.defect # "none" => tc.rejected = {}
        /\ ~tc.runs => tc.modern}

Init == Start(LifeToolchains, Contexts)

Next ==
    \/ New
    \/ Default
    \/ \E crate_type \in CrateTypes, file_type \in {"Normal", "Linkable"},
          kind \in {"Lib", "Bin"} :
          FileTypes(crate_type, file_type, kind, target_triple(toolchain.profile))

Spec == Init /\ [][Next]_vars

-----------------------------------------------------------------------------
(* SpecProbe: the construction alone, against every toolchain.             *)

InitProbe == Start(Toolchains, Contexts)

NextProbe == New

SpecProbe == InitProbe /\ [][NextProbe]_vars

-----------------------------------------------------------------------------
(* SpecPlan: file_types with every combination of its arguments, on an     *)
(* instance constructed against a well-behaved toolchain.                  *)

PlanToolchains ==
    {tc \in Toolchains :
        /\ tc.defect = "none" /\ tc.runs /\ tc.modern
        /\ tc.rejected = IF tc.profile = "emscripten"
                         THEN {"dylib", "cdylib", "proc-macro"} ELSE {}}

InitPlan == Start(PlanToolchains, {c \in Contexts : c.kind = "Host" /\ c.setup_ok})

NextPlan ==
    \/ New
    \/ \E crate_type \in RustcCrateTypes, file_type \in TargetFileTypes,
          kind \in TargetKinds, triple \in Triples :
          FileTypes(crate_type, file_type, kind, triple)

SpecPlan == InitPlan /\ [][NextPlan]_vars

-----------------------------------------------------------------------------
(* SpecParse: parse_crate_type alone, on every short line.                 *)

Alphabet == {"a", "_", " "}

\* The strings of at most n characters of the alphabet.
RECURSIVE Strs(_)
Strs(n) ==
    IF n = 0 THEN {""}
    ELSE Strs(n - 1) \cup {s \o c : s \in {t \in Strs(n - 1) : Len(t) = n - 1}, c \in Alphabet}

ParseErrors ==
    {<<>>,
     <<"warning: dropping unsupported crate type 'cdylib' for target 'x86_64-unknown-linux-musl'">>,
     <<"warning: unused variable", "error: unknown crate type: 'bin'">>}

ParseInputs ==
    [crate_type : {"bin", "dylib"},
     error      : ParseErrors,
     lines      : {<<>>} \cup {<<l>> : l \in Strs(MaxLineLen)}
                         \cup {<<l, "lib___.rlib">> : l \in Strs(MaxLineLen)}]

InitParse ==
    /\ toolchain = [profile |-> "linux", rejected |-> {}, runs |-> TRUE,
                    modern |-> TRUE, defect |-> "none"]
    /\ cx = [kind |-> "Host", setup_ok |-> TRUE, rustflags |-> <<>>]
    /\ pc = "parse"
    /\ crate_type_process = None
    /\ crate_types = <<>>
    /\ cfg = None
    /\ sysroot_libdir = None
    /\ invocations = <<>>
    /\ \E in \in ParseInputs : call = [op |-> "input", in |-> in]

\* The action: one call of parse_crate_type.
ParseCrateType ==
    /\ pc = "parse"
    /\ call.op = "input"
    /\ call' = [op |-> "parse_crate_type", in |-> call.in,
                out |-> parse_crate_type(call.in.crate_type, call.in.error, call.in.lines)]
    /\ UNCHANGED <<toolchain, cx, pc, crate_type_process, crate_types, cfg,
                   sysroot_libdir, invocations>>

NextParse == ParseCrateType

SpecParse == InitParse /\ [][NextParse]_vars

-----------------------------------------------------------------------------
(* Claims.                                                                 *)

\* The separator of the synthetic crate name.
Sep == "___"

\* The position of the first separator of a line that has one.
SepAt(t) ==
    CHOOSE i \in 1..Len(t) :
        /\ SubSeq(t, i, i + Len(Sep) - 1) = Sep
        /\ \A j \in 1..(i - 1) : SubSeq(t, j, j + Len(Sep) - 1) # Sep

\* The text before the first separator, and the text after it.
Before(t) == SubSeq(t, 1, SepAt(t) - 1)

After(t) == SubSeq(t, SepAt(t) + Len(Sep), Len(t))

\* The pair a well-formed line stands for: the text before the first separator
\* and the text between it and the next one (or the end of the line).
NamePair(line) ==
    <<Before(trim(line)),
      IF contains(After(trim(line)), Sep) THEN Before(After(trim(line)))
      ELSE After(trim(line))>>

\* The naming info the toolchain gives crate type K when K is probed alone and
\* nothing else is asked for.
OwnNaming(tc, K) ==
    IF K \in tc.rejected THEN None ELSE Some(NamePair(FileNames(tc.profile)[K]))

Constructed == pc = "ready" /\ call.op = "new"

\* C1: in the batched probe of TargetInfo::new, every known crate type the
\* toolchain reports as unsupported resolves to None, and every other known
\* crate type resolves to the naming info of its own stdout line, whichever
\* crate types the toolchain rejects.
C1_RejectedKindsShiftNothing ==
    (Constructed /\ toolchain.defect = "none") =>
        \A K \in Known : crate_types[K] = OwnNaming(toolchain, K)

\* C4: for every known crate type K, the naming info the batched probe stored
\* for K is what discover_crate_type returns for K against the same toolchain.
C4_BatchAgreesWithFocused ==
    (Constructed /\ toolchain.defect = "none") =>
        \A K \in Known :
            discover_crate_type(toolchain, crate_type_process, K).res
                = Ok(crate_types[K])

-----------------------------------------------------------------------------

\* The naming info file_types worked with, read off what it returned.
NamingSeen(c) ==
    IF c.ret = None THEN None
    ELSE Some(<<c.ret.val[1].prefix, c.ret.val[1].suffix>>)

\* C2: once the instance is constructed no cache entry is ever overwritten or
\* removed, and a file_types call for a crate type that is already cached
\* issues no toolchain invocation and works with exactly the cached naming info.
C2_CachedKindNeverProbedAgain ==
    [][pc = "ready" =>
          /\ \A k \in DOMAIN crate_types :
                 k \in DOMAIN crate_types' /\ crate_types'[k] = crate_types[k]
          /\ (call'.op = "file_types" /\ call'.crate_type \in DOMAIN crate_types) =>
                 /\ invocations' = invocations
                 /\ call'.ok
                 /\ NamingSeen(call') = crate_types[call'.crate_type]]_vars

\* A crate type that a focused probe resolved earlier is asked for again and
\* found in the cache.
C2_Witness ==
    /\ call.op = "file_types" /\ call.hit
    /\ \E i \in Focused :
           invocations[i].ok /\ invocations[i].args[Len(invocations[i].args)] = call.crate_type

\* The combined probe failed and the reduced probe ran successfully.
FellBack ==
    /\ call.op = "new"
    /\ Len(invocations) = 2
    /\ invocations[1].probe = "combined" /\ ~invocations[1].ok
    /\ invocations[2].probe = "reduced" /\ invocations[2].ok

ReducedOutput == exec_with_output(toolchain, invocations[2].args).val

\* The known crate types a probe's stderr does not report, in request order.
Expecting(error) == SelectSeq(KNOWN_CRATE_TYPES, LAMBDA k : ~not_supported(k, error))

\* A file-name output is well formed when it has a line with the separator for
\* every crate type it is expected to name.
WellFormedNames(out) ==
    /\ Len(Expecting(out.stderr)) <= Len(out.stdout)
    /\ \A n \in 1..Len(Expecting(out.stderr)) : contains(out.stdout[n], Sep)

\* What a file-name output says about known crate type K: None when stderr
\* reports K, else the pair of the line at K's place among the expected ones.
PositionalNaming(out, K) ==
    IF not_supported(K, out.stderr) THEN None
    ELSE Some(NamePair(out.stdout[
             Cardinality({j \in DOMAIN KNOWN_CRATE_TYPES :
                            /\ ~not_supported(KNOWN_CRATE_TYPES[j], out.stderr)
                            /\ \E i \in j..Len(KNOWN_CRATE_TYPES) : KNOWN_CRATE_TYPES[i] = K})]))

FallbackInstance ==
    /\ pc = "ready"
    /\ cfg = None
    /\ sysroot_libdir = None
    /\ \A K \in Known : crate_types[K] = PositionalNaming(ReducedOutput, K)

\* C3 as claimed: whenever the combined invocation fails and the reduced
\* invocation succeeds, TargetInfo::new succeeds with cfg and sysroot_libdir
\* None and the six known crate types parsed from the reduced output.
C3_FallbackAlwaysSucceeds == FellBack => FallbackInstance

\* C3, amended: the same, provided the reduced probe's output is well formed (a
\* line with the separator for every known crate type stderr does not report).
C3_FallbackOnWellFormedOutput ==
    (FellBack /\ WellFormedNames(ReducedOutput)) => FallbackInstance

\* A fallback instance built against a toolchain that drops some crate types.
C3_Witness ==
    /\ FellBack /\ pc = "ready"
    /\ \E K \in Known : crate_types[K] = None
    /\ \E K \in Known : crate_types[K] # None

-----------------------------------------------------------------------------

\* file_types returned a list.
Listed == call.op = "file_types" /\ call.ok /\ call.ret.some

Last(list) == list[Len(list)]

IsApple(triple) == contains(triple, "-apple-")

IsMsvc(triple) == ends_with(triple, "-msvc")

\* C5: file_types returns Ok(None) exactly when the naming info of the crate
\* type is None; otherwise it returns a non-empty list whose first element is
\* (resolved prefix, resolved suffix, the target_file_type passed in,
\* should_replace_hyphens = false).
C5_NoneOrBaseFirst ==
    (call.op = "file_types" /\ call.ok) =>
        /\ call.ret = None <=> crate_types[call.crate_type] = None
        /\ crate_types[call.crate_type] # None =>
              /\ call.ret.some
              /\ Len(call.ret.val) >= 1
              /\ call.ret.val[1] =
                     [prefix |-> crate_types[call.crate_type].val[1],
                      suffix |-> crate_types[call.crate_type].val[2],
                      target_file_type |-> call.file_type,
                      should_replace_hyphens |-> FALSE]

\* A list with extras whose base descriptor has a prefix and another role than
\* any extra gets.
C5_Witness ==
    /\ Listed /\ Len(call.ret.val) > 1
    /\ call.file_type = "Linkable" /\ call.ret.val[1].prefix = "lib"

\* C6 as claimed: for staticlib the list has exactly one descriptor, whatever
\* the other arguments are.
C6_StaticlibAlwaysAlone ==
    (Listed /\ call.crate_type = "staticlib") => Len(call.ret.val) = 1

\* C6, amended: for staticlib the import-library and .wasm rules never add a
\* descriptor; the list is the base descriptor alone unless the target kind is
\* Bin and the triple is an Apple or -msvc one, and then it is the base
\* descriptor and one debug-info descriptor.
C6_StaticlibAloneUnlessBin ==
    (Listed /\ call.crate_type = "staticlib") =>
        /\ call.ret.val[1].target_file_type = call.file_type
        /\ Len(call.ret.val) =
               IF call.kind = "Bin" /\ (IsApple(call.target_triple) \/ IsMsvc(call.target_triple))
               THEN 2 ELSE 1
        /\ Len(call.ret.val) = 2 => call.ret.val[2].target_file_type = "DebugInfo"

\* A static library of a library target on Windows.
C6_Witness ==
    /\ Listed /\ call.crate_type = "staticlib" /\ call.kind = "Lib"
    /\ call.target_triple = "x86_64-pc-windows-msvc" /\ call.ret.val[1].suffix = ".lib"

PdbOf(list) == FileType(list[1].prefix, ".pdb", "DebugInfo", FALSE)

\* C7 as claimed: for bin on x86_64-pc-windows-msvc the list ends with
\* (prefix, ".pdb", DebugInfo), whatever the other arguments are.
C7_BinOnMsvcAlwaysPdb ==
    (Listed /\ call.crate_type = "bin" /\ call.target_triple = "x86_64-pc-windows-msvc") =>
        Last(call.ret.val) = PdbOf(call.ret.val)

\* C7, amended: for bin on x86_64-pc-windows-msvc the list ends with
\* (prefix, ".pdb", DebugInfo) when the target kind is Bin, and only then.
C7_BinOnMsvcPdbIffBin ==
    (Listed /\ call.crate_type = "bin" /\ call.target_triple = "x86_64-pc-windows-msvc") =>
        (call.kind = "Bin" <=> Last(call.ret.val) = PdbOf(call.ret.val))

C7_Witness ==
    /\ Listed /\ call.crate_type = "bin" /\ call.kind = "Bin"
    /\ call.target_triple = "x86_64-pc-windows-msvc" /\ call.ret.val[1].suffix = ".exe"

\* A DLL asked for as a linkable artifact on a pc-windows-msvc triple.
LinkableDll ==
    /\ Listed
    /\ call.crate_type \in {"dylib", "cdylib"}
    /\ crate_types[call.crate_type] # None
    /\ crate_types[call.crate_type].val[2] = ".dll"
    /\ ends_with(call.target_triple, "pc-windows-msvc")
    /\ call.file_type = "Linkable"

DllAndImportLibrary ==
    <<FileType(crate_types[call.crate_type].val[1], ".dll", "Linkable", FALSE),
      FileType(crate_types[call.crate_type].val[1],
               crate_types[call.crate_type].val[2] \o ".lib", "Normal", FALSE)>>

\* C8 as claimed: the list is exactly the DLL and its import library.
C8_DllAndImportLibraryOnly == LinkableDll => call.ret.val = DllAndImportLibrary

\* C8, amended: the list is exactly the DLL and its import library when the
\* target kind is not Bin; with target kind Bin the .pdb descriptor follows.
C8_DllAndImportLibraryThenPdb ==
    LinkableDll =>
        call.ret.val =
            DllAndImportLibrary
              \o (IF call.kind = "Bin" THEN <<PdbOf(call.ret.val)>> ELSE <<>>)

C8_Witness == LinkableDll /\ call.kind = "Lib" /\ call.crate_type = "cdylib"

\* The place of a descriptor after the base one in the fixed order.
Rank(ft) ==
    CASE ft.suffix = ".dll.lib" -> 1
      [] ft.suffix = ".wasm" -> 2
      [] ft.suffix \in {".dSYM", ".pdb"} -> 3
      [] OTHER -> 0

Holds(cond) == IF cond THEN 1 ELSE 0

Among(list, ft) == \E i \in 2..Len(list) : list[i] = ft

\* C9: every expansion rule whose condition holds adds its descriptor and no
\* other descriptor is added; the extras follow the base descriptor in the
\* order import library, .wasm, debug info (.dSYM on an Apple triple, else
\* .pdb on an -msvc triple, and only for target kind Bin); the .wasm
\* descriptor is the only one with should_replace_hyphens = true.
C9_RulesIndependentAndOrdered ==
    Listed =>
        /\ Len(call.ret.val) =
               1 + Holds(/\ ends_with(call.target_triple, "pc-windows-msvc")
                         /\ ends_with(call.crate_type, "dylib")
                         /\ call.ret.val[1].suffix = ".dll")
                 + Holds(/\ starts_with(call.target_triple, "wasm32-")
                         /\ call.crate_type = "bin"
                         /\ call.ret.val[1].suffix = ".js")
                 + Holds(/\ call.kind = "Bin"
                         /\ IsApple(call.target_triple) \/ IsMsvc(call.target_triple))
        /\ (/\ ends_with(call.target_triple, "pc-windows-msvc")
            /\ ends_with(call.crate_type, "dylib")
            /\ call.ret.val[1].suffix = ".dll")
              => Among(call.ret.val,
                       FileType(call.ret.val[1].prefix, ".dll.lib", "Normal", FALSE))
        /\ (/\ starts_with(call.target_triple, "wasm32-")
            /\ call.crate_type = "bin"
            /\ call.ret.val[1].suffix = ".js")
              => Among(call.ret.val,
                       FileType(call.ret.val[1].prefix, ".wasm", "Normal", TRUE))
        /\ (call.kind = "Bin" /\ IsApple(call.target_triple))
              => Among(call.ret.val,
                       FileType(call.ret.val[1].prefix, ".dSYM", "DebugInfo", FALSE))
        /\ (call.kind = "Bin" /\ IsMsvc(call.target_triple) /\ ~IsApple(call.target_triple))
              => Among(call.ret.val, PdbOf(call.ret.val))
        /\ \A i \in 2..Len(call.ret.val) :
               /\ Rank(call.ret.val[i]) > 0
               /\ \A j \in 2..(i - 1) : Rank(call.ret.val[j]) < Rank(call.ret.val[i])
        /\ \A i \in 1..Len(call.ret.val) :
               call.ret.val[i].should_replace_hyphens
                   <=> (i > 1 /\ call.ret.val[i].suffix = ".wasm")

\* The .wasm rule and the debug-info rule fire on the same call.
C9_Witness ==
    /\ Listed /\ Len(call.ret.val) = 3
    /\ call.ret.val[2].suffix = ".wasm" /\ call.ret.val[3].suffix = ".pdb"

-----------------------------------------------------------------------------

\* parse_crate_type consumed a line for a crate type stderr does not report.
ParsedLine ==
    /\ call.op = "parse_crate_type"
    /\ ~not_supported(call.in.crate_type, call.in.error)
    /\ call.in.lines # <<>>

\* The line as the parser splits it: without surrounding whitespace.
Trimmed == trim(Head(call.in.lines))

\* C10: for a crate type that is not rejected, a consumed line (surrounding
\* whitespace aside) without the separator is an error and never a pair; a
\* line with one separator gives (text before, text after); a line with two or
\* more separators gives the first two parts and drops the rest.
C10_SeparatorDecidesTheParse ==
    ParsedLine =>
        /\ ~contains(Trimmed, Sep) => ~call.out.res.ok
        /\ (contains(Trimmed, Sep) /\ ~contains(After(Trimmed), Sep)) =>
               call.out.res = Ok(Some(<<Before(Trimmed), After(Trimmed)>>))
        /\ (contains(Trimmed, Sep) /\ contains(After(Trimmed), Sep)) =>
               call.out.res = Ok(Some(<<Before(Trimmed), Before(After(Trimmed))>>))

\* A line with two separators and text before the first.
C10_Witness ==
    /\ ParsedLine /\ call.out.res.ok
    /\ contains(Trimmed, Sep) /\ contains(After(Trimmed), Sep)
    /\ Before(Trimmed) # ""

-----------------------------------------------------------------------------

\* The instance was returned by TargetInfo::new: its log starts with the
\* combined probe (Default runs nothing).
BuiltByNew == pc = "ready" /\ invocations # <<>> /\ invocations[1].probe = "combined"

\* TargetInfo::new fell back to the reduced probe.
UsedFallback == Len(invocations) >= 2 /\ invocations[2].probe = "reduced"

AsksForCfgOrSysroot(args) == HasArg(args, "--print=sysroot") \/ HasArg(args, "--print=cfg")

\* C11: on an instance in use, every file_types call (cache hit, successful or
\* failed focused probe) leaves cfg and sysroot_libdir as TargetInfo::new set
\* them; after a fallback construction both are None and stay None; and no
\* focused probe asks for the sysroot or the configuration.
C11_CfgAndSysrootSetOnlyByNew ==
    [][pc = "ready" =>
          /\ cfg' = cfg
          /\ sysroot_libdir' = sysroot_libdir
          /\ UsedFallback => (cfg = None /\ sysroot_libdir = None
                                /\ cfg' = None /\ sysroot_libdir' = None)
          /\ \A i \in DOMAIN invocations' :
                 invocations'[i].probe = "focused" =>
                     ~AsksForCfgOrSysroot(invocations'[i].args)]_vars

\* A fallback instance after a successful and then a failed focused probe.
C11_Witness ==
    /\ pc = "ready" /\ UsedFallback /\ Len(invocations) = 4
    /\ invocations[3].probe = "focused" /\ invocations[3].ok
    /\ invocations[4].probe = "focused" /\ ~invocations[4].ok
    /\ call.op = "file_types" /\ ~call.ok
    /\ cfg = None /\ sysroot_libdir = None

-----------------------------------------------------------------------------

\* C12: every focused invocation of the log comes after the combined probe of
\* the same instance, and after the reduced probe if there was one; a focused
\* invocation is only ever found on an instance whose construction has
\* finished.
C12_FocusedProbesFollowConstruction ==
    \A i \in Focused :
        /\ pc = "ready"
        /\ invocations[1].probe = "combined"
        /\ \A j \in DOMAIN invocations :
               invocations[j].probe \in {"combined", "reduced"} => j < i

\* Two focused probes on an instance that was constructed by the fallback.
C12_Witness ==
    /\ UsedFallback /\ Cardinality(Focused) = 2
    /\ call.op = "file_types" /\ ~call.hit

-----------------------------------------------------------------------------

\* The invocations of one kind of probe in a log.
ProbesOf(log, probe) == {i \in DOMAIN log : log[i].probe = probe}

\* What a call of TargetInfo::new that left `log` behind did with its probes:
\* the combined probe once; the reduced probe at most once, after the combined
\* one and only when that failed; the wrapped error when both failed.
ProbedOnce(log, c) ==
    /\ Cardinality(ProbesOf(log, "combined")) = 1
    /\ log[1].probe = "combined"
    /\ Len(log) <= 2
    /\ Len(log) = 2 <=> ~log[1].ok
    /\ Len(log) = 2 => log[2].probe = "reduced"
    /\ (Len(log) = 2 /\ ~log[2].ok) =>
           /\ ~c.ok
           /\ c.err = "failed to run rustc to learn about target-specific information"

\* What a file_types call on a cache miss did: one focused invocation, and an
\* error when that invocation failed.
MissProbedOnce(before, after, c) ==
    /\ Len(after) = Len(before) + 1
    /\ SubSeq(after, 1, Len(before)) = before
    /\ after[Len(after)].probe = "focused"
    /\ ~after[Len(after)].ok =>
           /\ ~c.ok
           /\ c.err = "failed to run rustc to learn about crate-type information"

\* C13 as claimed: every call of TargetInfo::new issues the combined probe
\* exactly once (and the reduced probe as described), and every file_types
\* call on a cache miss issues exactly one focused invocation.
C13_EveryCallProbesOnce ==
    [][/\ call'.op = "new" => ProbedOnce(invocations', call')
       /\ (call'.op = "file_types" /\ call'.crate_type \notin DOMAIN crate_types) =>
              MissProbedOnce(invocations, invocations', call')]_vars

\* C13, amended: the same for every call of TargetInfo::new that gets as far
\* as the probe (lines 39-40 returned no error), and for every file_types call
\* on a cache miss of an instance that TargetInfo::new returned; after a
\* failed call of new nothing more is run.
C13_NoInvocationIsRetried ==
    [][/\ (call'.op = "new" /\ cx.setup_ok) => ProbedOnce(invocations', call')
       /\ (call'.op = "new" /\ ~cx.setup_ok) => (invocations' = <<>> /\ ~call'.ok)
       /\ (BuiltByNew /\ call'.op = "file_types"
              /\ call'.crate_type \notin DOMAIN crate_types) =>
              MissProbedOnce(invocations, invocations', call')
       /\ pc = "failed" => invocations' = invocations]_vars

\* A cache miss whose focused invocation failed, on an instance constructed
\* by the reduced probe after the combined one failed.
C13_Witness ==
    /\ UsedFallback /\ ~invocations[1].ok /\ invocations[2].ok
    /\ call.op = "file_types" /\ ~call.hit /\ ~call.ok
    /\ ~invocations[Len(invocations)].ok

-----------------------------------------------------------------------------

CombinedOutput == exec_with_output(toolchain, invocations[1].args).val

\* The output TargetInfo::new parsed: that of the combined probe, or of the
\* reduced probe after a fallback.
ParsedOutput == IF invocations[1].ok THEN CombinedOutput ELSE ReducedOutput

\* The number of known crate types the parsed stderr does not report.
NameCount == Len(Expecting(ParsedOutput.stderr))

\* C14: in the instance TargetInfo::new returns, the k-th known crate type
\* (in request order) that stderr does not report has the pair of the k-th
\* stdout line, and a reported one has None; after a successful combined probe
\* sysroot_libdir starts with the line right after the name lines, and cfg is
\* the sequence of all lines after that one, in order, duplicates kept.
C14_LinesConsumedByPosition ==
    Constructed =>
        /\ \A K \in Known : crate_types[K] = PositionalNaming(ParsedOutput, K)
        /\ invocations[1].ok =>
               /\ sysroot_libdir.some
               /\ sysroot_libdir.val[1] = ParsedOutput.stdout[NameCount + 1]
               /\ cfg.some
               /\ Len(cfg.val) = Len(ParsedOutput.stdout) - (NameCount + 1)
               /\ \A i \in DOMAIN cfg.val :
                      Ok(cfg.val[i]) = CfgFromStr(ParsedOutput.stdout[NameCount + 1 + i])

\* A combined probe that reports a crate type in the middle of the request
\* order and prints the same configuration flag twice.
C14_Witness ==
    /\ Constructed /\ invocations[1].ok
    /\ crate_types["dylib"] = None /\ crate_types["staticlib"] # None
    /\ \E i, j \in DOMAIN cfg.val : i < j /\ cfg.val[i] = cfg.val[j]

-----------------------------------------------------------------------------

\* The output of a combined probe is malformed when a name line is missing or
\* has no separator, when no line follows the name lines, or when a line after
\* the sysroot line is no configuration flag.
MalformedCombined(out) ==
    \/ ~WellFormedNames(out)
    \/ Len(out.stdout) <= Len(Expecting(out.stderr))
    \/ \E n \in (Len(Expecting(out.stderr)) + 2)..Len(out.stdout) :
           ~CfgFromStr(out.stdout[n]).ok

\* TargetInfo::new ran the combined probe, and that invocation succeeded.
CombinedRan == call.op = "new" /\ invocations # <<>> /\ invocations[1].ok

\* C15: when the combined invocation succeeds with malformed output,
\* TargetInfo::new returns an error after that one invocation: there is no
\* reduced probe and no instance, not even one with part of the data.
C15_MalformedOutputIsFatal ==
    (CombinedRan /\ MalformedCombined(CombinedOutput)) =>
        /\ ~call.ok
        /\ pc = "failed"
        /\ Len(invocations) = 1
        /\ crate_type_process = None /\ crate_types = <<>>
        /\ cfg = None /\ sysroot_libdir = None

\* The name lines are fine and a configuration line fails to parse.
C15_Witness ==
    /\ CombinedRan /\ ~call.ok
    /\ WellFormedNames(CombinedOutput)
    /\ Len(CombinedOutput.stdout) > Len(Expecting(CombinedOutput.stderr)) + 1
    /\ MalformedCombined(CombinedOutput)

-----------------------------------------------------------------------------

\* C16: a successful TargetInfo::new leaves a cache whose keys are the six
\* known crate types.  On the instance it returned, a file_types call runs
\* the toolchain exactly when the requested crate type has no entry, so never
\* for a known one; and a focused probe that succeeds adds the entry of the
\* requested crate type (a None result too) and leaves every other entry as
\* it was.
C16_CacheFilledByNewThenByMisses ==
    [][/\ (call'.op = "new" /\ call'.ok) => DOMAIN crate_types' = Known
       /\ (BuiltByNew /\ call'.op = "file_types") =>
              /\ invocations' # invocations <=> call'.crate_type \notin DOMAIN crate_types
              /\ call'.crate_type \in Known => invocations' = invocations
              /\ (invocations' # invocations /\ call'.ok) =>
                     /\ DOMAIN crate_types' = DOMAIN crate_types \cup {call'.crate_type}
                     /\ crate_types'[call'.crate_type] = NamingSeen(call')
                     /\ \A k \in DOMAIN crate_types : crate_types'[k] = crate_types[k]]_vars

\* A focused probe found the requested crate type unsupported and stored None.
C16_Witness ==
    /\ BuiltByNew /\ call.op = "file_types" /\ ~call.hit /\ call.ok
    /\ call.ret = None
    /\ DOMAIN crate_types = Known \cup {call.crate_type}
    /\ crate_types[call.crate_type] = None

-----------------------------------------------------------------------------

\* The base invocation template of the instance: the synthetic input, the
\* crate name ___, --print=file-names, the extra flags, and --target <triple>
\* for a cross target only.
Template ==
    <<"-", "--crate-name", "___", "--print=file-names">>
      \o cx.rustflags
      \o (IF cx.kind = "Target" THEN <<"--target", target_triple(toolchain.profile)>>
          ELSE <<>>)

\* The argument list of a focused invocation for crate type k.
FocusedArgs(args, k) ==
    /\ args = Template \o <<"--crate-type", k>>
    /\ RequestedCrateTypes(args) = <<k>>
    /\ ~AsksForCfgOrSysroot(args)
    /\ HasArg(args, "--target") <=> cx.kind = "Target"

\* C17: on an instance in use the stored template never changes, and every
\* focused invocation is the template followed by one --crate-type, that of
\* the crate type the call asked for: no --print=sysroot, no --print=cfg,
\* none of the six --crate-type arguments of the batch and none of an earlier
\* focused probe.
C17_TemplateNeverMutated ==
    [][pc = "ready" =>
          /\ crate_type_process' = crate_type_process
          /\ \A i \in DOMAIN invocations' :
                 invocations'[i].probe = "focused" =>
                     FocusedArgs(invocations'[i].args,
                                 invocations'[i].args[Len(invocations'[i].args)])
          /\ invocations' # invocations =>
                 FocusedArgs(invocations'[Len(invocations')].args, call'.crate_type)]_vars

\* The second focused probe of an instance built for a cross target, for
\* another crate type than the first.
C17_Witness ==
    /\ cx.kind = "Target" /\ Cardinality(Focused) = 2
    /\ call.op = "file_types" /\ ~call.hit
    /\ \E i \in Focused :
           invocations[i].args[Len(invocations[i].args)] # call.crate_type

-----------------------------------------------------------------------------

\* A focused invocation failed: the process did, or its output has no line, or
\* a line without the separator, for a crate type stderr does not report.
FocusedFailed(inv, k) ==
    \/ ~inv.ok
    \/ /\ ~not_supported(k, exec_with_output(toolchain, inv.args).val.stderr)
       /\ \/ exec_with_output(toolchain, inv.args).val.stdout = <<>>
          \/ ~contains(exec_with_output(toolchain, inv.args).val.stdout[1], Sep)

\* C18: a file_types call whose focused probe fails returns an error and
\* leaves the cache as it was, without an entry for the requested crate type;
\* and a call for the crate type of a call that just failed runs a new focused
\* invocation.
C18_FailedProbeIsNotCached ==
    [][/\ (call'.op = "file_types" /\ invocations' # invocations
              /\ FocusedFailed(invocations'[Len(invocations')], call'.crate_type)) =>
              /\ ~call'.ok
              /\ crate_types' = crate_types
              /\ call'.crate_type \notin DOMAIN crate_types'
       /\ (BuiltByNew /\ call.op = "file_types" /\ ~call.ok
              /\ call'.op = "file_types" /\ call'.crate_type = call.crate_type) =>
              /\ Len(invocations') = Len(invocations) + 1
              /\ invocations'[Len(invocations')].probe = "focused"
              /\ invocations'[Len(invocations')].args
                    = crate_type_process.val \o <<"--crate-type", call.crate_type>>]_vars

\* The second of two calls for the same crate type, both with a focused probe
\* whose process succeeded and whose output is malformed.
C18_Witness ==
    /\ call.op = "file_types" /\ ~call.ok /\ Cardinality(Focused) = 2
    /\ \A i \in Focused :
           /\ invocations[i].ok
           /\ invocations[i].args[Len(invocations[i].args)] = call.crate_type
           /\ FocusedFailed(invocations[i], call.crate_type)

-----------------------------------------------------------------------------

\* C19: an instance that TargetInfo::new returned has its template, keeps it,
\* and no file_types call on it panics at the unwrap of discover_crate_type;
\* a panic there only ever happens on an instance made by Default, and it
\* happens on the first file_types call on such an instance, whatever crate
\* type is asked for.
C19_TemplatePresentUnlessDefault ==
    [][/\ (call'.op = "new" /\ call'.ok) => crate_type_process'.some
       /\ (BuiltByNew /\ call'.op = "file_types") =>
              (crate_type_process'.some /\ pc' # "panicked")
       /\ (call.op = "default" /\ call'.op = "file_types") =>
              (pc' = "panicked" /\ invocations' = <<>>)
       /\ pc' = "panicked" =>
              (call.op = "default" /\ ~crate_type_process.some /\ crate_types = <<>>)]_vars

\* The first call on a Default instance, for a known crate type, panicked.
C19_Witness ==
    /\ pc = "panicked" /\ call.op = "file_types" /\ call.crate_type \in Known
    /\ ~crate_type_process.some /\ invocations = <<>>

====
